---- MODULE Spec2Model ----
(***************************************************************************)
(* The chess session of src/App.js: the React component App, its state     *)
(* hooks, its three effects and its event handlers.                        *)
(*                                                                         *)
(* One action is one event of the browser's event loop: a handler (board   *)
(* gesture, button click, select change, interval callback) together with  *)
(* the render it causes and the effects that render runs.                  *)
(*                                                                         *)
(* chess.js is an external library.  The engine object game.current is     *)
(* modelled by its list of applied moves; what the engine answers for a    *)
(* gesture in the current position (illegal, or legal and leading to a     *)
(* quiet / check / checkmate / drawn position) is part of the gesture.     *)
(* Positions are told apart by the moves that led to them; how many moves  *)
(* a real game needs before a check, mate or draw can arise is not         *)
(* modelled, so a short modelled game stands for a longer real one.        *)
(*                                                                         *)
(* src/unnamed/part_000 is the same component before the clocks were       *)
(* added: its handlers are those below without the clock state.            *)
(***************************************************************************)
EXTENDS Integers, Sequences, FiniteSets, TLC

VARIABLES
    game,          \* game.current: the engine's applied moves (MoveRecords)
    fen,           \* useState fen
    pgn,           \* useState pgn
    status,        \* useState status
    whiteMoves,    \* useState whiteMoves
    blackMoves,    \* useState blackMoves
    selectedTime,  \* useState selectedTime
    whiteTime,     \* useState whiteTime
    blackTime,     \* useState blackTime
    activeColor,   \* useState activeColor
    timerRef,      \* the interval of timerRef.current: "none" when cleared,
                   \* else the activeColor its callback closed over
    lastOp,        \* the event processed last, with its argument and result
    timerStale     \* history: the armed interval was armed before the last
                   \* reset, switch of the running side or terminal status

vars == <<game, fen, pgn, status, whiteMoves, blackMoves, selectedTime,
          whiteTime, blackTime, activeColor, timerRef, lastOp, timerStale>>

(***************************************************************************)
(* Bounds                                                                  *)
(***************************************************************************)
\* Ticks in a modelled minute (the code's minute has 60).
SecondsPerMinute == 1
\* Longest game played (moves applied to the engine).
MaxHistory == 3

(***************************************************************************)
(* Program constants                                                       *)
(***************************************************************************)
TIME_OPTIONS ==
    << 10 * SecondsPerMinute, 5 * SecondsPerMinute, 1 * SecondsPerMinute >>

TimeValues == { TIME_OPTIONS[i] : i \in 1..Len(TIME_OPTIONS) }

\* The click event React hands to onClick={resetBoard}: resetBoard receives
\* it as `time`.  It is an object: `t > 0` and `t === 0` are both false for
\* it, which is all the code ever asks of a time; -1 stands for it.
ClickEvent == -1

(***************************************************************************)
(* The rules engine (chess.js), by its contract                            *)
(***************************************************************************)
Colors == {"w", "b"}

\* What the engine makes of a gesture: the position a legal move leads to.
LegalKinds == {"quiet", "check", "checkmate", "draw"}
Kinds == LegalKinds \cup {"illegal"}

\* A board gesture: the colour of the piece picked up and the engine's
\* verdict on (source, target) in the current position.
Gestures == [piece : Colors, kind : Kinds]

\* A MoveRecord: the move as the history lists it.
MoveRecord(color, kind) == [color |-> color, kind |-> kind]

\* game.current.turn()
Turn(g) == IF Len(g) % 2 = 0 THEN "w" ELSE "b"

\* game.current.history()
History(g) == g

\* game.current.fen(): the position, a function of the moves applied.
Fen(g) == g

\* game.current.pgn(): "" for a game without moves.
Pgn(g) == g

\* the flags of the current position
EngineInCheckmate(g) == Len(g) > 0 /\ g[Len(g)].kind = "checkmate"
EngineInDraw(g) == Len(g) > 0 /\ g[Len(g)].kind = "draw"
EngineInCheck(g) ==
    Len(g) > 0 /\ g[Len(g)].kind \in {"check", "checkmate"}

\* game.current.move({from, to, promotion}): null for an illegal move, which
\* leaves the engine as it was; a piece of the side not to move never has a
\* legal move, and a checkmated side has none.
EngineMoveLegal(g, gesture) ==
    /\ gesture.kind # "illegal"
    /\ gesture.piece = Turn(g)
    /\ ~EngineInCheckmate(g)

EngineMove(g, gesture) ==
    IF EngineMoveLegal(g, gesture)
    THEN Append(g, MoveRecord(gesture.piece, gesture.kind))
    ELSE g

\* game.current.undo(): takes back the last move, nothing on an empty game.
EngineUndo(g) == IF Len(g) = 0 THEN g ELSE SubSeq(g, 1, Len(g) - 1)

\* game.current.reset()
EngineReset == << >>

(***************************************************************************)
(* The component's state as one record                                     *)
(***************************************************************************)
State ==
    [ game |-> game, fen |-> fen, pgn |-> pgn, status |-> status,
      whiteMoves |-> whiteMoves, blackMoves |-> blackMoves,
      selectedTime |-> selectedTime, whiteTime |-> whiteTime,
      blackTime |-> blackTime, activeColor |-> activeColor,
      timerRef |-> timerRef ]

\* the helpers of lines 32-37
_inCheck(g) == EngineInCheck(g)
_inCheckmate(g) == EngineInCheckmate(g)
_inDraw(g) == EngineInDraw(g)

\* history.forEach((move, idx) => idx % 2 === 0 ? whites.push : blacks.push)
\* (mutant) the split taking idx for the 1-based place of a move
ParityOneBased(h, rest) ==
    IF rest = 1
    THEN [i \in 1..((Len(h) + 1) \div 2) |-> h[2 * i - 1]]
    ELSE [i \in 1..(Len(h) \div 2) |-> h[2 * i]]

RECURSIVE Parity(_, _)
Parity(h, rest) ==
    IF Len(h) = 0 THEN << >>
    ELSE IF (Len(h) - 1) % 2 = rest
         THEN Append(Parity(SubSeq(h, 1, Len(h) - 1), rest), h[Len(h)])
         ELSE Parity(SubSeq(h, 1, Len(h) - 1), rest)

MoveColor(g) == IF Turn(g) = "w" THEN "White" ELSE "Black"

StatusText(g) ==
    IF _inCheckmate(g)
    THEN "Game over, " \o MoveColor(g) \o " is in checkmate."
    ELSE IF _inDraw(g)
    THEN "Game over, drawn position"
    ELSE IF _inCheck(g)
    THEN MoveColor(g) \o " to move, " \o MoveColor(g) \o " is in check"
    ELSE MoveColor(g) \o " to move"

\* (mutant) updateStatus without setActiveColor(game.current.turn())
updateStatusNoActiveColor(s) ==
    [s EXCEPT !.whiteMoves = Parity(History(s.game), 0),
              !.blackMoves = Parity(History(s.game), 1),
              !.status = StatusText(s.game)]

updateStatus(s) ==
    [s EXCEPT !.activeColor = Turn(s.game),
              !.whiteMoves = Parity(History(s.game), 0),
              !.blackMoves = Parity(History(s.game), 1),
              !.status = StatusText(s.game)]

(***************************************************************************)
(* The effects                                                             *)
(***************************************************************************)
\* (mutant) the Timer effect without its checkmate / draw test
TimerEffectAlwaysArms(s) == [s EXCEPT !.timerRef = s.activeColor]

\* Timer effect, dependencies [activeColor]
TimerEffect(s) ==
    IF _inCheckmate(s.game) \/ _inDraw(s.game)
    THEN [s EXCEPT !.timerRef = "none"]
    ELSE [s EXCEPT !.timerRef = s.activeColor]

\* time-out effect, dependencies [whiteTime, blackTime]
TimeOutEffect(s) ==
    IF s.whiteTime = 0 \/ s.blackTime = 0
    THEN [s EXCEPT !.timerRef = "none",
                   !.status = IF s.whiteTime = 0
                              THEN "Time's up! Black wins."
                              ELSE "Time's up! White wins."]
    ELSE s

\* Which effects a render runs: those with a dependency that changed
TimerEffectDue(old, new) == new.activeColor # old.activeColor
\* (mutant) the time-out effect without its dependency array: it runs after
\* every render
TimeOutEffectDueEveryRender(old, new) == TRUE

TimeOutEffectDue(old, new) ==
    new.whiteTime # old.whiteTime \/ new.blackTime # old.blackTime

\* The render after a handler changed the state from old to new, and its
\* effects in the order the component declares them.
Render(old, new) ==
    LET s1 == IF TimerEffectDue(old, new) THEN TimerEffect(new) ELSE new
    IN  IF TimeOutEffectDue(old, new) THEN TimeOutEffect(s1) ELSE s1

(***************************************************************************)
(* The handlers                                                            *)
(***************************************************************************)
\* (mutant) onDragStart without its game-over test
onDragStartNoGameOverTest(s, piece) == piece = Turn(s.game)

\* onDragStart: TRUE when the piece may be picked up
onDragStart(s, piece) ==
    /\ ~(_inCheckmate(s.game) \/ _inDraw(s.game))
    /\ piece = Turn(s.game)

\* onDrop: what it returns
onDropReturn(s, gesture) ==
    IF EngineMoveLegal(s.game, gesture) THEN "accepted" ELSE "snapback"

\* (mutant) onDrop refreshing the status before it looks at the engine's
\* answer
onDropUpdatesFirst(s, gesture) ==
    LET g == EngineMove(s.game, gesture)
    IN  updateStatus([s EXCEPT !.game = g, !.fen = Fen(g), !.pgn = Pgn(g)])

\* onDrop: the state it leaves
onDrop(s, gesture) ==
    IF ~EngineMoveLegal(s.game, gesture)
    THEN s
    ELSE LET g == EngineMove(s.game, gesture)
         IN  updateStatus([s EXCEPT !.game = g, !.fen = Fen(g),
                                    !.pgn = Pgn(g)])

\* (mutant) resetBoard without its closing updateStatus()
resetBoardNoUpdateStatus(s, time) ==
    [s EXCEPT !.game = EngineReset,
              !.fen = Fen(EngineReset),
              !.pgn = << >>,
              !.whiteTime = time,
              !.blackTime = time,
              !.activeColor = "w"]

resetBoard(s, time) ==
    updateStatus([s EXCEPT !.game = EngineReset,
                           !.fen = Fen(EngineReset),
                           !.pgn = << >>,
                           !.whiteTime = time,
                           !.blackTime = time,
                           !.activeColor = "w"])

handleTimeChange(s, val) ==
    resetBoard([s EXCEPT !.selectedTime = val,
                         !.whiteTime = val,
                         !.blackTime = val], val)

\* game.current.undo() in undoMove: whether a move was taken back
undoReturn(s) == IF Len(s.game) > 0 THEN "reverted" ELSE "null"

undoMove(s) ==
    LET g == EngineUndo(s.game)
    IN  updateStatus([s EXCEPT !.game = g, !.fen = Fen(g), !.pgn = Pgn(g)])

\* the setInterval callback; color is the activeColor it closed over
IntervalCallback(s, color) ==
    [s EXCEPT !.whiteTime = IF color = "w" /\ @ > 0 THEN @ - 1 ELSE @,
              !.blackTime = IF color = "b" /\ @ > 0 THEN @ - 1 ELSE @]

(***************************************************************************)
(* The state machine                                                       *)
(***************************************************************************)
Op(op, piece, kind, time, ret) ==
    [op |-> op, piece |-> piece, kind |-> kind, time |-> time, ret |-> ret]

Set(s) ==
    /\ game' = s.game
    /\ fen' = s.fen
    /\ pgn' = s.pgn
    /\ status' = s.status
    /\ whiteMoves' = s.whiteMoves
    /\ blackMoves' = s.blackMoves
    /\ selectedTime' = s.selectedTime
    /\ whiteTime' = s.whiteTime
    /\ blackTime' = s.blackTime
    /\ activeColor' = s.activeColor
    /\ timerRef' = s.timerRef

\* Checkmate, draw or a clock at zero in state s
TerminalIn(s) ==
    _inCheckmate(s.game) \/ _inDraw(s.game)
        \/ s.whiteTime = 0 \/ s.blackTime = 0

\* Whether the interval armed after an event is one that an earlier
\* configuration armed: new is the state the handler left, post the state
\* after the render; no effect cleared or replaced the interval although
\* the session was reset, the running side switched or the game became
\* terminal.
StaleAfter(new, post, isReset) ==
    IF post.timerRef = "none" \/ TimerEffectDue(State, new)
    THEN FALSE
    ELSE \/ timerStale
         \/ isReset
         \/ post.activeColor # activeColor
         \/ (~TerminalIn(State) /\ TerminalIn(post))

\* The first render: the useState initial values, no interval yet.
FirstRender ==
    [ game |-> << >>, fen |-> Fen(<< >>), pgn |-> << >>, status |-> "",
      whiteMoves |-> << >>, blackMoves |-> << >>,
      selectedTime |-> TIME_OPTIONS[1], whiteTime |-> TIME_OPTIONS[1],
      blackTime |-> TIME_OPTIONS[1], activeColor |-> "w",
      timerRef |-> "none" ]

\* The state after mounting: every effect has run once, in order; the
\* mount effect creates the board and calls updateStatus.
Mounted == TimeOutEffect(TimerEffect(updateStatus(FirstRender)))

Init ==
    /\ game = Mounted.game
    /\ fen = Mounted.fen
    /\ pgn = Mounted.pgn
    /\ status = Mounted.status
    /\ whiteMoves = Mounted.whiteMoves
    /\ blackMoves = Mounted.blackMoves
    /\ selectedTime = Mounted.selectedTime
    /\ whiteTime = Mounted.whiteTime
    /\ blackTime = Mounted.blackTime
    /\ activeColor = Mounted.activeColor
    /\ timerRef = Mounted.timerRef
    /\ lastOp = Op("mount", "-", "-", 0, "-")
    /\ timerStale = FALSE

\* A board gesture: onDragStart, and onDrop when the drag was allowed.
\* (A refused drag never reaches the engine: its verdict is not recorded.)
AttemptMove(gesture) ==
    /\ \/ Len(game) < MaxHistory
       \/ ~onDragStart(State, gesture.piece)
       \/ ~EngineMoveLegal(game, gesture)
    /\ IF onDragStart(State, gesture.piece)
       THEN /\ Set(Render(State, onDrop(State, gesture)))
            /\ timerStale' = StaleAfter(onDrop(State, gesture),
                   Render(State, onDrop(State, gesture)), FALSE)
            /\ lastOp' = Op("drop", gesture.piece, gesture.kind, 0,
                            onDropReturn(State, gesture))
       ELSE /\ Set(State)
            /\ timerStale' = timerStale
            /\ lastOp' = Op("drag", gesture.piece, "-", 0, "false")

\* The Undo button
Undo ==
    /\ Set(Render(State, undoMove(State)))
    /\ timerStale' = StaleAfter(undoMove(State),
           Render(State, undoMove(State)), FALSE)
    /\ lastOp' = Op("undo", "-", "-", 0, undoReturn(State))

\* The Reset button: onClick={resetBoard} calls resetBoard(event)
ResetClick ==
    /\ Set(Render(State, resetBoard(State, ClickEvent)))
    /\ timerStale' = StaleAfter(resetBoard(State, ClickEvent),
           Render(State, resetBoard(State, ClickEvent)), TRUE)
    /\ lastOp' = Op("reset", "-", "-", ClickEvent, "-")

\* The time control select: onChange fires for another option than the
\* one shown
TimeChange(val) ==
    /\ val # selectedTime
    /\ Set(Render(State, handleTimeChange(State, val)))
    /\ timerStale' = StaleAfter(handleTimeChange(State, val),
           Render(State, handleTimeChange(State, val)), TRUE)
    /\ lastOp' = Op("timeChange", "-", "-", val, "-")

\* The interval fires
Tick ==
    /\ timerRef # "none"
    /\ Set(Render(State, IntervalCallback(State, timerRef)))
    /\ timerStale' = StaleAfter(IntervalCallback(State, timerRef),
           Render(State, IntervalCallback(State, timerRef)), FALSE)
    /\ lastOp' = Op("tick", "-", "-", 0, "-")

Next ==
    \/ \E gesture \in Gestures : AttemptMove(gesture)
    \/ Undo
    \/ ResetClick
    \/ \E val \in TimeValues : TimeChange(val)
    \/ Tick

Spec == Init /\ [][Next]_vars

(***************************************************************************)
(* Notions the properties share                                            *)
(***************************************************************************)
\* The component as the properties see it: everything but the select.
Session == <<game, fen, pgn, status, whiteMoves, blackMoves,
             whiteTime, blackTime, activeColor, timerRef>>

TimeIsUp == whiteTime = 0 \/ blackTime = 0

TimeExpiredStatus ==
    status \in {"Time's up! Black wins.", "Time's up! White wins."}

GameOverStatus ==
    status \in {"Game over, White is in checkmate.",
                "Game over, Black is in checkmate.",
                "Game over, drawn position"}

RulesTerminal == _inCheckmate(game) \/ _inDraw(game)

\* Terminal: Checkmate, Draw, or a clock at zero
Terminal == RulesTerminal \/ TimeIsUp

\* A tick now would decrement a clock.
ClockRunning ==
    \/ timerRef = "w" /\ whiteTime > 0
    \/ timerRef = "b" /\ blackTime > 0

ResetOps == {"reset", "timeChange"}

(***************************************************************************)
(* C1: once a clock has reached zero and the status says so, a move        *)
(* attempt or an undo leaves the position, the move history and the        *)
(* status as they are.                                                     *)
(***************************************************************************)
C1_RejectedAfterTimeExpired ==
    [][ (TimeIsUp /\ TimeExpiredStatus
             /\ lastOp'.op \in {"drag", "drop", "undo"})
        => UNCHANGED <<game, fen, status>> ]_vars

(***************************************************************************)
(* C2: no tick that occurs in a terminal state (checkmate, draw or a clock *)
(* at zero) decrements either clock.                                       *)
(***************************************************************************)
C2_NoTickWhenTerminal ==
    [][ (Terminal /\ lastOp'.op = "tick")
        => UNCHANGED <<whiteTime, blackTime>> ]_vars

(***************************************************************************)
(* C3: once the ticking has stopped in a terminal state, no move attempt,  *)
(* undo or tick brings a state in which a clock runs again; only a reset   *)
(* or a change of time control may.                                        *)
(***************************************************************************)
C3_StoppedStaysStopped ==
    [][ (Terminal /\ timerRef = "none" /\ lastOp'.op \notin ResetOps)
        => ~ClockRunning' ]_vars

(***************************************************************************)
(* C4: after the Reset button both clocks show the selected time control,  *)
(* the history is empty and the position is the starting position.         *)
(***************************************************************************)
C4_ResetButtonUsesSelectedTime ==
    lastOp.op = "reset" =>
        /\ whiteTime = selectedTime
        /\ blackTime = selectedTime
        /\ selectedTime \in TimeValues
        /\ History(game) = << >>
        /\ fen = Fen(EngineReset)

(***************************************************************************)
(* C5: after resetBoard(t) the status is "White to move", both clocks are  *)
(* t, and the history and both move lists are empty.                       *)
(***************************************************************************)
C5_AfterReset ==
    lastOp.op \in ResetOps =>
        /\ status = "White to move"
        /\ whiteTime = lastOp.time
        /\ blackTime = lastOp.time
        /\ History(game) = << >>
        /\ whiteMoves = << >>
        /\ blackMoves = << >>

\* a reset(t) out of a state whose clock had been stopped
C5_Witness ==
    /\ lastOp.op = "timeChange"
    /\ timerRef = "none"
    /\ status = "White to move"
    /\ whiteTime = lastOp.time
    /\ blackTime = lastOp.time

(***************************************************************************)
(* C6: after a reset White's clock is the running one: the interval is     *)
(* armed for White.                                                        *)
(***************************************************************************)
C6_WhiteRunsAfterReset ==
    lastOp.op \in ResetOps => (activeColor = "w" /\ timerRef = "w")

(***************************************************************************)
(* C7: selecting time control v leaves the position, history, status,      *)
(* clocks, running side and interval that resetBoard(v) leaves on a        *)
(* freshly mounted session.                                                *)
(***************************************************************************)
FreshReset(v) == Render(Mounted, resetBoard(Mounted, v))

C7_TimeChangeIsFreshReset ==
    lastOp.op = "timeChange" =>
        LET f == FreshReset(lastOp.time)
        IN  <<fen, game, status, whiteTime, blackTime, activeColor, timerRef>>
            = <<f.fen, f.game, f.status, f.whiteTime, f.blackTime,
                f.activeColor, f.timerRef>>

(***************************************************************************)
(* C8: a drop the engine rejects as illegal returns "snapback" and leaves  *)
(* position, status, clocks, running side, interval and move lists as      *)
(* they were.                                                              *)
(***************************************************************************)
C8_IllegalMoveChangesNothing ==
    [][ (lastOp'.op = "drop" /\ lastOp'.kind = "illegal")
        => (lastOp'.ret = "snapback" /\ UNCHANGED Session) ]_vars

\* an illegal drop in a game under way whose clock had run out
C8_Witness ==
    /\ lastOp.op = "drop"
    /\ lastOp.kind = "illegal"
    /\ lastOp.ret = "snapback"
    /\ Len(game) > 0
    /\ TimeExpiredStatus

(***************************************************************************)
(* C9: undo with an empty history changes neither position, status nor     *)
(* clocks (remaining times, running side, interval).                       *)
(***************************************************************************)
C9_UndoOnEmptyIsNoOp ==
    [][ (lastOp'.op = "undo" /\ Len(History(game)) = 0)
        => UNCHANGED <<game, fen, status, whiteTime, blackTime,
                       activeColor, timerRef>> ]_vars

(***************************************************************************)
(* C10: whenever the position is checkmate or draw and a clock is at zero, *)
(* the status is the checkmate / draw one, not the time-out one.           *)
(***************************************************************************)
C10_RulesOutcomeBeatsClock ==
    (RulesTerminal /\ TimeIsUp) => (GameOverStatus /\ ~TimeExpiredStatus)

\* a checkmate delivered after a flag had fallen
C10_Witness ==
    /\ _inCheckmate(game)
    /\ TimeIsUp
    /\ GameOverStatus
    /\ lastOp.op = "drop"

(***************************************************************************)
(* More shared notions                                                     *)
(***************************************************************************)
\* The side whose clock the armed interval decrements, "none" without one.
RunningSide == timerRef

RevertingUndo == lastOp.op = "undo" /\ lastOp.ret = "reverted"

(***************************************************************************)
(* C11 as claimed: an undo that takes back a move leaves the running side  *)
(* of the clock as it was.                                                 *)
(***************************************************************************)
C11_UndoKeepsRunningSide ==
    [][ RevertingUndo' => (activeColor' = activeColor
                           /\ RunningSide' = RunningSide) ]_vars

(***************************************************************************)
(* C11 as amended: an undo that takes back a move switches the running     *)
(* side to the side to move of the position it restores, and the interval  *)
(* is armed for that side.                                                 *)
(***************************************************************************)
C11_UndoSwitchesRunningSide ==
    [][ RevertingUndo' => (/\ activeColor' # activeColor
                           /\ activeColor' = Turn(game')
                           /\ RunningSide' = Turn(game')) ]_vars

\* an undo in a game that is still under way afterwards
C11_Witness ==
    /\ RevertingUndo
    /\ Len(game) > 0
    /\ activeColor = Turn(game)
    /\ RunningSide = Turn(game)

(***************************************************************************)
(* C12: in a checkmate position the status names the side to move as       *)
(* checkmated (the side that moved last won) and no interval is armed, so  *)
(* no tick decrements a clock while the position stays checkmate.          *)
(***************************************************************************)
C12_CheckmateStopsClock ==
    _inCheckmate(game) =>
        /\ game[Len(game)].color # Turn(game)
        /\ status = IF Turn(game) = "b"
                    THEN "Game over, Black is in checkmate."
                    ELSE "Game over, White is in checkmate."
        /\ timerRef = "none"
        /\ ~ClockRunning

\* White has just mated
C12_Witness ==
    /\ _inCheckmate(game)
    /\ lastOp.op = "drop"
    /\ lastOp.piece = "w"
    /\ status = "Game over, Black is in checkmate."
    /\ timerRef = "none"

(***************************************************************************)
(* C13: a tick that brings a side's clock to zero in a position that is    *)
(* neither checkmate nor draw sets the time-out status naming that side    *)
(* as the loser, and the status stays so until a reset.                    *)
(***************************************************************************)
C13_TimeExpiredIsSetAndStays ==
    [][ /\ (lastOp'.op = "tick" /\ ~RulesTerminal
               /\ whiteTime # 0 /\ whiteTime' = 0)
            => status' = "Time's up! Black wins."
        /\ (lastOp'.op = "tick" /\ ~RulesTerminal
               /\ blackTime # 0 /\ blackTime' = 0)
            => status' = "Time's up! White wins."
        /\ (TimeExpiredStatus /\ lastOp'.op \notin ResetOps)
            => status' = status ]_vars

(***************************************************************************)
(* C14: an accepted move lengthens the history by one, an undo that takes  *)
(* back a move shortens it by one, a reset empties it and nothing else     *)
(* changes it; the White list is the entries at even index (counted from   *)
(* 0) in order, the Black list those at odd index.                         *)
(***************************************************************************)
EvenEntries(h) == [i \in 1..((Len(h) + 1) \div 2) |-> h[2 * i - 1]]
OddEntries(h) == [i \in 1..(Len(h) \div 2) |-> h[2 * i]]

MoveListsPartition ==
    /\ whiteMoves = EvenEntries(History(game))
    /\ blackMoves = OddEntries(History(game))
    /\ Len(whiteMoves) - Len(blackMoves) \in {0, 1}
    /\ Len(whiteMoves) + Len(blackMoves) = Len(History(game))

HistoryCounts ==
    Len(History(game')) =
        CASE lastOp'.op = "drop" /\ lastOp'.ret = "accepted"
                 -> Len(History(game)) + 1
          [] lastOp'.op = "undo" /\ lastOp'.ret = "reverted"
                 -> Len(History(game)) - 1
          [] lastOp'.op \in ResetOps -> 0
          [] OTHER -> Len(History(game))

C14_HistoryAndMoveLists ==
    [][ HistoryCounts /\ MoveListsPartition /\ MoveListsPartition' ]_vars

\* two moves left after a third was taken back
C14_Witness ==
    /\ RevertingUndo
    /\ Len(History(game)) = 2
    /\ whiteMoves = <<game[1]>>
    /\ blackMoves = <<game[2]>>

(***************************************************************************)
(* C15: after an accepted move that leaves the game non-terminal, and in   *)
(* every non-terminal state, the running side of the clock is the side to  *)
(* move.                                                                   *)
(***************************************************************************)
C15_RunningSideIsSideToMove ==
    [][ ~Terminal' => (activeColor' = Turn(game')
                       /\ RunningSide' = Turn(game')) ]_vars

(***************************************************************************)
(* C16: in a checkmate or draw position every drag is refused, and         *)
(* position and history change only by an undo or a reset.                 *)
(***************************************************************************)
C16_NoMoveAfterGameOver ==
    [][ RulesTerminal =>
          /\ lastOp'.op # "drop"
          /\ lastOp'.op = "drag" => (lastOp'.ret = "false"
                                     /\ UNCHANGED Session)
          /\ lastOp'.op \notin ({"undo"} \cup ResetOps)
                => UNCHANGED <<game, fen, pgn, whiteMoves, blackMoves>>
      ]_vars

\* a piece of the side to move is not picked up in a drawn position
C16_Witness ==
    /\ _inDraw(game)
    /\ lastOp.op = "drag"
    /\ lastOp.piece = Turn(game)
    /\ lastOp.ret = "false"

(***************************************************************************)
(* C17: a tick takes exactly one off the running side's remaining seconds  *)
(* when they are above zero, changes nothing else and nothing at zero;     *)
(* both remaining times are integers in 0..t, t the time control of the    *)
(* last reset, and do not grow between resets.                             *)
(***************************************************************************)
C17_TickAndClockRange ==
    [][ /\ lastOp'.op = "tick" =>
              /\ whiteTime' = IF RunningSide = "w" /\ whiteTime > 0
                              THEN whiteTime - 1 ELSE whiteTime
              /\ blackTime' = IF RunningSide = "b" /\ blackTime > 0
                              THEN blackTime - 1 ELSE blackTime
        /\ whiteTime' \in 0..selectedTime'
        /\ blackTime' \in 0..selectedTime'
        /\ lastOp'.op \notin ResetOps
              => (whiteTime' <= whiteTime /\ blackTime' <= blackTime)
      ]_vars

(***************************************************************************)
(* C18: at most one interval is armed, and an interval armed before the    *)
(* running side was switched, the session was reset or the game became     *)
(* terminal never decrements a clock afterwards.                           *)
(***************************************************************************)
C18_NoStaleTick ==
    [][ /\ timerRef' \in {"none", "w", "b"}
        /\ (lastOp'.op = "tick" /\ timerStale)
              => UNCHANGED <<whiteTime, blackTime>> ]_vars

(***************************************************************************)
(* C19: the status shown is the status derived from the position and the   *)
(* clocks: checkmate or draw if the engine reports it, else the time-out   *)
(* of a side whose clock is at zero, else the side to move (in check).     *)
(***************************************************************************)
DerivedStatus(g, w, b) ==
    IF _inCheckmate(g) \/ _inDraw(g) THEN StatusText(g)
    ELSE IF w = 0 THEN "Time's up! Black wins."
    ELSE IF b = 0 THEN "Time's up! White wins."
    ELSE StatusText(g)

C19_StatusIsDerived == status = DerivedStatus(game, whiteTime, blackTime)

(***************************************************************************)
(* C20: in every non-terminal state the clock of the side to move is       *)
(* running, so that ticks alone bring it to zero: with no clock running    *)
(* in a non-terminal state nothing but a user action can happen.           *)
(***************************************************************************)
C20_NonTerminalClockRuns ==
    ~Terminal => (ClockRunning /\ RunningSide = Turn(game))

====
